---- MODULE Spec2Model ----
(***************************************************************************)
(* Model of the concurrent ingestion code of azure-rag-accelerator:        *)
(*   - EnhancedFileStrategy._run_concurrent_add and the per-file tasks it  *)
(*     creates (prepdocslib/enhanced_filestrategy.py)                      *)
(*   - EnhancedSharePointConnector.list_files and its gated downloads      *)
(*     (prepdocslib/plugins/enhanced_sharepoint_connector.py)              *)
(*   - SharePointError.is_retryable / get_retry_delay, classify_exception  *)
(*     and CircuitBreaker (prepdocslib/sharepoint_errors.py)               *)
(*   - ProgressTracker (prepdocslib/sharepoint_monitoring.py)              *)
(* asyncio is cooperative: a step of the model is the code a coroutine     *)
(* runs between two awaits.                                                *)
(***************************************************************************)
EXTENDS Integers, FiniteSets, Sequences, TLC

\* ----------------------------------------------------------------- bounds
\* number of files the source may yield in one run
MaxFiles == 2
\* largest max_concurrent_files drawn at construction
MaxConcurrentFiles == 2
\* largest max_concurrent_downloads drawn at construction
MaxConcurrentDownloads == 2
\* largest retry_attempts drawn at construction
MaxRetryAttempts == 2

\* largest connection_pool_size drawn at construction
MaxPoolSize == 1
\* largest attempt index handed to get_retry_delay
MaxAttemptIndex == 6
\* number of list_files runs over one sync state file
MaxRuns == 2
\* number of cues a type name or a message is built from
MaxCues == 2
\* coroutines calling through one CircuitBreaker
MaxCallers == 2
\* largest failure_threshold drawn at construction
MaxThreshold == 2
\* largest recovery_timeout drawn at construction
MaxRecoveryTimeout == 2
\* last instant time.time() reaches
MaxNow == 3
\* last instant at which a file of the library is modified
MaxClock == 2
\* number of updates a ProgressTracker receives
MaxUpdates == 2

\* lowest value ConfigurationEnhancer.validate_enhanced_config accepts for
\* max_concurrent_files, max_concurrent_downloads and retry_attempts
MinConfigValue == 1

\* the instant of the first reading of datetime.now()
FirstInstant == 1

VARIABLES
    \* ---- EnhancedFileStrategy
    max_concurrent_files,       \* self.max_concurrent_files
    max_concurrent_downloads,   \* self.max_concurrent_downloads
    retry_attempts,             \* self.retry_attempts
    file_processing_semaphore,  \* asyncio.Semaphore._value
    download_semaphore,         \* asyncio.Semaphore._value
    metrics,                    \* ProcessingMetrics
    drv,                        \* where _run_concurrent_add stands
    enumFailed,                 \* the source enumeration raised
    admitted,                   \* number of files the source has yielded
    active_tasks,               \* the local set active_tasks
    tasks,                      \* one record per created task (tasks list)
    \* ---- EnhancedSharePointConnector
    conn_max_concurrent_downloads, \* self.max_concurrent_downloads
    conn_retry_attempts,        \* self.retry_attempts
    connection_pool_size,       \* self.connection_pool_size
    semaphore,                  \* list_files' local asyncio.Semaphore._value
    client_pool,                \* len(self.client_pool)
    sync_state,                 \* self.sync_state
    gen,                        \* where the list_files generator stands
    yielded_item,               \* the item whose file the generator has yielded
    downloads,                  \* one record per download task
    enable_incremental_sync,    \* self.enable_incremental_sync
    sync_state_file,            \* the JSON file at self.sync_state_file
    clock,                      \* the time datetime.now() reads
    source,                     \* the file items of the document library
    mtime,                      \* item.last_modified_date_time of each
    run,                        \* which run of list_files this is
    handed,                     \* what the caller did with each yielded file
    \* ---- SharePointError.get_retry_delay, called on its own
    d_error,                    \* the SharePointError (category, retry_after)
    d_attempt,                  \* argument attempt
    d_base,                     \* argument base_delay
    d_delay,                    \* <<>> before the call, <<returned value>> after
    \* ---- SharePointErrorClassifier.classify_exception, called on its own
    k_exception,                \* the exception handed to classify_exception
    k_result,                   \* <<>> before the call, <<its outcome>> after
    \* ---- CircuitBreaker
    failure_threshold,          \* self.failure_threshold
    recovery_timeout,           \* self.recovery_timeout
    breaker_state,              \* self.state
    failure_count,              \* self.failure_count
    last_failure_time,          \* self.last_failure_time
    now,                        \* what time.time() returns
    callers,                    \* one record per coroutine calling the wrapper
    tripped,                    \* the breaker opened and has not been probed since
    \* ---- ProgressTracker
    current_stage,              \* self.current_stage
    stage_progress,             \* self.stage_progress
    overall_progress,           \* self.overall_progress
    history,                    \* len(self.history)
    tracker_call,               \* the method last called on the tracker
    \* ---- the Graph client pool, its clients told apart
    pooled_clients,             \* self.client_pool, a list of clients
    client_pool_lock,           \* the operation holding self.client_pool_lock
    ops,                        \* one record per download operation
    clients_created             \* clients _create_new_client has returned

pvars == <<max_concurrent_files, max_concurrent_downloads, retry_attempts,
           file_processing_semaphore, download_semaphore, metrics, drv,
           enumFailed, admitted, active_tasks, tasks>>

cvars == <<conn_max_concurrent_downloads, conn_retry_attempts, connection_pool_size,
           semaphore, client_pool, sync_state, gen, yielded_item, downloads>>

dvars == <<d_error, d_attempt, d_base, d_delay>>

svars == <<enable_incremental_sync, sync_state_file, clock, source, mtime,
           run, handed>>

kvars == <<k_exception, k_result>>

bvars == <<failure_threshold, recovery_timeout, breaker_state, failure_count,
           last_failure_time, now, callers, tripped>>

tvars == <<current_stage, stage_progress, overall_progress, history,
           tracker_call>>

gvars == <<pooled_clients, client_pool_lock, ops, clients_created>>

vars == <<pvars, cvars, svars, dvars, kvars, bvars, tvars, gvars>>

Files == 1..MaxFiles

Min(a, b) == IF a <= b THEN a ELSE b
Max(a, b) == IF a >= b THEN a ELSE b

\* ------------------------------------------------------ ProcessingMetrics
NewMetrics ==
    [total_files |-> 0, processed_files |-> 0, failed_files |-> 0,
     skipped_files |-> 0, concurrent_tasks |-> 0, max_concurrent_tasks |-> 0]

add_file_processed(m) == [m EXCEPT !.processed_files = @ + 1]

add_file_failed(m) == [m EXCEPT !.failed_files = @ + 1]

add_file_skipped(m) == [m EXCEPT !.skipped_files = @ + 1]

set_concurrent_tasks(m, count) ==
    [m EXCEPT !.concurrent_tasks = count,
              !.max_concurrent_tasks = Max(@, count)]

\* ------------------------------------------------------------------ tasks
\* pc: "none"    no task created yet for this file
\*     "created" task created, not yet past `async with file_processing_semaphore`
\*     "parse"   holds a processing slot, awaiting parse_file
\*     "waitDl"  awaiting `async with download_semaphore`
\*     "upload"  holds a download slot, awaiting blob_manager.upload_blob
\*     "index"   awaiting search_manager.update_content
\*     "sleep"   awaiting the retry backoff asyncio.sleep
\*     "done"    the task's coroutine has ended (result: "true","false","raised")
\*     "cancelled" the task ended by cancellation
\* attempt: the loop variable of _process_file_with_retry
\* calls:   how many times _process_single_file was invoked on the file
\* raised:  how many of these invocations raised
\* content: parse_file yields sections for this file
\* closed:  file.close() was called
\* usedClosed: an attempt was started after file.close()
\* cancel:  task.cancel() was called and not yet delivered
NoTask ==
    [pc |-> "none", attempt |-> 0, calls |-> 0, raised |-> 0, content |-> TRUE,
     closed |-> FALSE, usedClosed |-> FALSE, cancel |-> FALSE, result |-> "none"]

Finished(t) == t.pc \in {"done", "cancelled"}

Created(t) == t.pc # "none"

HoldsSlot(t) == t.pc \in {"parse", "waitDl", "upload", "index", "sleep"}

HoldsDownload(t) == t.pc = "upload"

\* `async with self.file_processing_semaphore`: entered only with a free slot
SlotGateAlwaysOpen(value) == TRUE

SlotGateNeedsTwo(value) == value > 1

SlotGate(value) == value > 0

\* `async with self.download_semaphore`: entered only with a free slot
DownloadGateAlwaysOpen(value) == TRUE

DownloadGate(value) == value > 0

\* `if attempt < self.retry_attempts - 1`: sleep and retry, else give up
RetryAfterFailureOffByOne(attempt, n) == attempt < n

RetryAfterFailure(attempt, n) == attempt < n - 1

\* what the retry loop hands its caller once the attempts are exhausted:
\* `return False`
ExhaustedOutcomeReRaise == "raised"

ExhaustedOutcome == "false"

\* `if len(active_tasks) >= self.max_concurrent_files * 2`
AdmissionNeverFull(n, mcf) == FALSE

AdmissionFull(n, mcf) == n >= mcf * 2

\* the final `asyncio.wait(active_tasks)` returns when ALL have finished
WaitAllReadyFirstCompleted(active, ts) == \E f \in active : Finished(ts[f])

WaitAllReady(active, ts) == \A f \in active : Finished(ts[f])

\* `await asyncio.gather(*tasks, return_exceptions=True)` returns once every
\* task of the list has ended
GatherReadyNoWait(ts) == TRUE

GatherReady(ts) == \A f \in Files : Created(ts[f]) => Finished(ts[f])

\* `except Exception: ... add_file_failed()` around `await completed_task`
ReapFailuresCountsFalse(m, doneSet, ts) ==
    [m EXCEPT !.failed_files =
        @ + Cardinality({f \in doneSet : ts[f].result \in {"raised", "false"}})]

ReapFailures(m, doneSet, ts) ==
    [m EXCEPT !.failed_files =
        @ + Cardinality({f \in doneSet : ts[f].result = "raised"})]

\* ------------------------------------------------------ sharepoint_errors
\* rationals <<numerator, denominator>> with a positive denominator stand
\* for the float delays
Rat(n, d) == <<n, d>>

RatEq(a, b) == a[1] * b[2] = b[1] * a[2]

RatLe(a, b) == a[1] * b[2] <= b[1] * a[2]

RatMul(a, b) == <<a[1] * b[1], a[2] * b[2]>>

\* Python's min(a, b)
RatMin(a, b) == IF RatLe(a, b) THEN a ELSE b

RECURSIVE Pow(_, _)
Pow(b, e) == IF e = 0 THEN 1 ELSE b * Pow(b, e - 1)

\* SharePointErrorCategory (the enum's values)
SharePointErrorCategory ==
    {"authentication", "authorization", "token_expired",
     "rate_limited", "throttled",
     "network_error", "timeout", "connection_error",
     "resource_not_found", "invalid_site_url", "document_library_not_found",
     "permission_denied",
     "file_too_large", "unsupported_file_type", "file_corrupted", "download_failed",
     "service_unavailable", "internal_server_error", "bad_request",
     "invalid_configuration", "missing_permissions",
     "unknown"}

\* SharePointError.is_retryable
retryable_categories ==
    {"rate_limited", "throttled", "network_error", "timeout", "connection_error",
     "service_unavailable", "internal_server_error"}

is_retryable(category) == category \in retryable_categories

\* an Optional[int]: <<>> is None, <<v>> is the integer v
None == <<>>

\* Python truthiness of an Optional[int]: None and 0 are falsy
Truthy(opt) == opt # None /\ opt[1] # 0

\* SharePointError.get_retry_delay(attempt, base_delay)
get_retry_delay(error, attempt, base_delay) ==
    IF ~is_retryable(error.category) THEN Rat(0, 1)
    ELSE IF Truthy(error.retry_after) THEN Rat(error.retry_after[1], 1)
    ELSE IF error.category \in {"rate_limited", "throttled"}
         THEN RatMin(RatMul(base_delay, Rat(Pow(3, attempt), 1)), Rat(300, 1))
    ELSE IF error.category \in {"network_error", "timeout"}
         THEN RatMin(RatMul(base_delay, Rat(Pow(2, attempt), 1)), Rat(60, 1))
    ELSE RatMin(RatMul(base_delay, Rat(Pow(3, attempt), Pow(2, attempt))), Rat(30, 1))

\* An exception as classify_exception reads it:
\*   response: it has a .response that is not None
\*   status:   response.status_code, an Optional[int]
\*   header:   the response's Retry-After header: [kind |-> "absent"],
\*             [kind |-> "int", val |-> v] (text that int() parses),
\*             [kind |-> "text"] (text that int() rejects with ValueError) or
\*             [kind |-> "object"] (a truthy value that is neither text nor a
\*             number, as the headers of a unittest Mock give: int() rejects
\*             it with TypeError)
\*   type:     the cues found in the lowercased type name
\*   msg:      the cues found in the lowercased message
NoHeader == [kind |-> "absent", val |-> 0]

HttpError(status, header, msg) ==
    [response |-> TRUE, status |-> <<status>>, header |-> header,
     type |-> {}, msg |-> msg]

PlainError(type, msg) ==
    [response |-> FALSE, status |-> None, header |-> NoHeader,
     type |-> type, msg |-> msg]

\* classify_exception: the Retry-After header read into retry_after
classify_retry_after(e) ==
    IF e.response /\ e.header.kind = "int" THEN <<e.header.val>> ELSE None

\* classify_exception: the if/elif chain that picks the category
classify_category(e) ==
    IF e.response THEN
        LET sc == e.status[1] IN
        IF sc = 401 THEN "authentication"
        ELSE IF sc = 403 THEN
            IF "rate limit" \in e.msg \/ "throttl" \in e.msg
            THEN "rate_limited" ELSE "authorization"
        ELSE IF sc = 404 THEN "resource_not_found"
        ELSE IF sc = 429 THEN "rate_limited"
        ELSE IF sc >= 500 THEN "service_unavailable"
        ELSE IF sc >= 400 THEN "bad_request"
        ELSE "unknown"
    ELSE IF "timeout" \in e.type \/ "timeout" \in e.msg THEN "timeout"
    ELSE IF "connection" \in e.type \/ "network" \in e.type THEN "connection_error"
    ELSE IF "authentication" \in e.msg \/ "token" \in e.msg THEN
        IF "expired" \in e.msg THEN "token_expired" ELSE "authentication"
    ELSE IF \E k \in {"rate limit", "throttl", "too many requests"} : k \in e.msg
         THEN "rate_limited"
    ELSE IF "file too large" \in e.msg \/ "size limit" \in e.msg THEN "file_too_large"
    ELSE IF "unsupported" \in e.msg /\ "file" \in e.msg THEN "unsupported_file_type"
    ELSE IF "invalid site" \in e.msg \/ "site not found" \in e.msg THEN "invalid_site_url"
    ELSE IF "document library" \in e.msg /\ "not found" \in e.msg
         THEN "document_library_not_found"
    ELSE "unknown"

\* classify_exception raises instead of returning: int(retry_after) raises a
\* TypeError that `except ValueError` lets through, and so does
\* `status_code >= 500` when status_code is None
classify_raises(e) ==
    e.response /\ (e.header.kind = "object" \/ e.status = None)

\* SharePointErrorClassifier.classify_exception (category and retry_after of
\* the SharePointError it builds, or the exception it raises)
classify_exception(e) ==
    IF classify_raises(e)
    THEN [category |-> "none", retry_after |-> None, raised |-> "TypeError"]
    ELSE [category |-> classify_category(e),
          retry_after |-> classify_retry_after(e), raised |-> "none"]

\* retry_after values an error may carry: none, Retry-After: 0, Retry-After: 60
RetryAfterValues == {None, <<0>>, <<60>>}

\* base delays: 0.5, the default 1.0, and 2.0
BaseDelays == {Rat(1, 2), Rat(1, 1), Rat(2, 1)}

\* ---------------------------------------------------- Init (construction)
InitPipeline ==
    /\ max_concurrent_files \in MinConfigValue..MaxConcurrentFiles
    /\ max_concurrent_downloads \in MinConfigValue..MaxConcurrentDownloads
    /\ retry_attempts \in MinConfigValue..MaxRetryAttempts
    /\ file_processing_semaphore = max_concurrent_files
    /\ download_semaphore = max_concurrent_downloads
    /\ metrics = NewMetrics
    /\ drv = "enum"
    /\ enumFailed = FALSE
    /\ admitted = 0
    /\ active_tasks = {}
    /\ tasks = [f \in Files |-> NoTask]

\* ---------------------------------------------- _run_concurrent_add steps
\* `async for file in files` yields a file: count it, create its task, and
\* wait for a completion when the buffer is full
ListYield(c) ==
    /\ drv = "enum"
    /\ admitted < MaxFiles
    /\ LET f == admitted + 1
           act == active_tasks \cup {f}
           m1 == [metrics EXCEPT !.total_files = @ + 1]
       IN /\ admitted' = f
          /\ tasks' = [tasks EXCEPT ![f] = [NoTask EXCEPT !.pc = "created", !.content = c]]
          /\ active_tasks' = act
          /\ metrics' = set_concurrent_tasks(m1, Cardinality(act))
          /\ drv' = IF AdmissionFull(Cardinality(act), max_concurrent_files)
                    THEN "wait" ELSE "enum"
    /\ UNCHANGED <<max_concurrent_files, max_concurrent_downloads, retry_attempts,
                   file_processing_semaphore, download_semaphore, enumFailed>>
    /\ UNCHANGED <<cvars, svars, dvars, kvars, bvars, tvars, gvars>>

\* the source is exhausted: wait for the remaining tasks, if any
ListExhausted ==
    /\ drv = "enum"
    /\ drv' = IF active_tasks # {} THEN "waitAll" ELSE "cleanup"
    /\ UNCHANGED <<max_concurrent_files, max_concurrent_downloads, retry_attempts,
                   file_processing_semaphore, download_semaphore, metrics,
                   enumFailed, admitted, active_tasks, tasks>>
    /\ UNCHANGED <<cvars, svars, dvars, kvars, bvars, tvars, gvars>>

\* the source enumeration raises: control goes to the finally block
ListRaise ==
    /\ drv = "enum"
    /\ enumFailed' = TRUE
    /\ drv' = "cleanup"
    /\ UNCHANGED <<max_concurrent_files, max_concurrent_downloads, retry_attempts,
                   file_processing_semaphore, download_semaphore, metrics,
                   admitted, active_tasks, tasks>>
    /\ UNCHANGED <<cvars, svars, dvars, kvars, bvars, tvars, gvars>>

\* asyncio.wait(..., FIRST_COMPLETED) returns the tasks finished by now
WaitFirstCompleted ==
    /\ drv = "wait"
    /\ \E f \in active_tasks : Finished(tasks[f])
    /\ LET done == {f \in active_tasks : Finished(tasks[f])}
           act == active_tasks \ done
       IN /\ active_tasks' = act
          /\ metrics' = set_concurrent_tasks(ReapFailures(metrics, done, tasks),
                                             Cardinality(act))
    /\ drv' = "enum"
    /\ UNCHANGED <<max_concurrent_files, max_concurrent_downloads, retry_attempts,
                   file_processing_semaphore, download_semaphore,
                   enumFailed, admitted, tasks>>
    /\ UNCHANGED <<cvars, svars, dvars, kvars, bvars, tvars, gvars>>

\* asyncio.wait(active_tasks) returns once all remaining tasks have finished
WaitAll ==
    /\ drv = "waitAll"
    /\ WaitAllReady(active_tasks, tasks)
    /\ metrics' = ReapFailures(metrics, {f \in active_tasks : Finished(tasks[f])}, tasks)
    /\ drv' = "cleanup"
    /\ UNCHANGED <<max_concurrent_files, max_concurrent_downloads, retry_attempts,
                   file_processing_semaphore, download_semaphore,
                   enumFailed, admitted, active_tasks, tasks>>
    /\ UNCHANGED <<cvars, svars, dvars, kvars, bvars, tvars, gvars>>

\* finally: cancel every task that is not done
Cleanup ==
    /\ drv = "cleanup"
    /\ tasks' = [f \in Files |->
                   IF Created(tasks[f]) /\ ~Finished(tasks[f])
                   THEN [tasks[f] EXCEPT !.cancel = TRUE] ELSE tasks[f]]
    /\ drv' = "gather"
    /\ UNCHANGED <<max_concurrent_files, max_concurrent_downloads, retry_attempts,
                   file_processing_semaphore, download_semaphore, metrics,
                   enumFailed, admitted, active_tasks>>
    /\ UNCHANGED <<cvars, svars, dvars, kvars, bvars, tvars, gvars>>

\* finally: asyncio.gather(*tasks, return_exceptions=True) returns; then the
\* pending enumeration error propagates, or the final metrics are logged
Gather ==
    /\ drv = "gather"
    /\ GatherReady(tasks)
    /\ drv' = IF enumFailed THEN "raised" ELSE "done"
    /\ UNCHANGED <<max_concurrent_files, max_concurrent_downloads, retry_attempts,
                   file_processing_semaphore, download_semaphore, metrics,
                   enumFailed, admitted, active_tasks, tasks>>
    /\ UNCHANGED <<cvars, svars, dvars, kvars, bvars, tvars, gvars>>

\* ------------------------------------------------------------- task steps
\* _process_file_with_retry: the attempt succeeded (success is True)
OnSuccess(f) ==
    /\ tasks' = [tasks EXCEPT ![f].pc = "done", ![f].result = "true",
                              ![f].closed = TRUE]
    /\ file_processing_semaphore' = file_processing_semaphore + 1

\* _process_file_with_retry: the attempt raised
OnFailure(f, m) ==
    IF RetryAfterFailure(tasks[f].attempt, retry_attempts)
    THEN /\ tasks' = [tasks EXCEPT ![f].pc = "sleep", ![f].raised = @ + 1]
         /\ metrics' = m
         /\ UNCHANGED file_processing_semaphore
    ELSE /\ tasks' = [tasks EXCEPT ![f].pc = "done", ![f].raised = @ + 1,
                                   ![f].result = ExhaustedOutcome,
                                   ![f].closed = TRUE]
         /\ metrics' = add_file_failed(m)
         /\ file_processing_semaphore' = file_processing_semaphore + 1

\* _process_file_with_semaphore takes a slot and starts the first attempt
AcquireSlot(f) ==
    /\ tasks[f].pc = "created" /\ ~tasks[f].cancel
    /\ SlotGate(file_processing_semaphore)
    /\ file_processing_semaphore' = file_processing_semaphore - 1
    /\ metrics' = set_concurrent_tasks(metrics,
                     max_concurrent_files - file_processing_semaphore')
    /\ tasks' = [tasks EXCEPT ![f].pc = "parse", ![f].calls = @ + 1]
    /\ UNCHANGED <<max_concurrent_files, max_concurrent_downloads, retry_attempts,
                   download_semaphore, drv, enumFailed, admitted, active_tasks>>
    /\ UNCHANGED <<cvars, svars, dvars, kvars, bvars, tvars, gvars>>

\* parse_file returns or raises
ParseDone(f, ok) ==
    /\ tasks[f].pc = "parse" /\ ~tasks[f].cancel
    /\ IF ~ok
       THEN OnFailure(f, metrics)
       ELSE IF ~tasks[f].content
            THEN \* no sections: skipped, returns True, and the caller sees success
                 /\ metrics' = add_file_processed(add_file_skipped(metrics))
                 /\ OnSuccess(f)
            ELSE /\ tasks' = [tasks EXCEPT ![f].pc = "waitDl"]
                 /\ UNCHANGED <<metrics, file_processing_semaphore>>
    /\ UNCHANGED <<max_concurrent_files, max_concurrent_downloads, retry_attempts,
                   download_semaphore, drv, enumFailed, admitted, active_tasks>>
    /\ UNCHANGED <<cvars, svars, dvars, kvars, bvars, tvars, gvars>>

\* _upload_with_semaphore takes a download slot
AcquireDownload(f) ==
    /\ tasks[f].pc = "waitDl" /\ ~tasks[f].cancel
    /\ DownloadGate(download_semaphore)
    /\ download_semaphore' = download_semaphore - 1
    /\ tasks' = [tasks EXCEPT ![f].pc = "upload"]
    /\ UNCHANGED <<max_concurrent_files, max_concurrent_downloads, retry_attempts,
                   file_processing_semaphore, metrics, drv, enumFailed, admitted,
                   active_tasks>>
    /\ UNCHANGED <<cvars, svars, dvars, kvars, bvars, tvars, gvars>>

\* upload_blob returns or raises; the download slot is released either way
UploadDone(f, ok) ==
    /\ tasks[f].pc = "upload" /\ ~tasks[f].cancel
    /\ download_semaphore' = download_semaphore + 1
    /\ IF ok
       THEN /\ tasks' = [tasks EXCEPT ![f].pc = "index"]
            /\ UNCHANGED <<metrics, file_processing_semaphore>>
       ELSE OnFailure(f, metrics)
    /\ UNCHANGED <<max_concurrent_files, max_concurrent_downloads, retry_attempts,
                   drv, enumFailed, admitted, active_tasks>>
    /\ UNCHANGED <<cvars, svars, dvars, kvars, bvars, tvars, gvars>>

\* update_content returns or raises
IndexDone(f, ok) ==
    /\ tasks[f].pc = "index" /\ ~tasks[f].cancel
    /\ IF ok
       THEN /\ metrics' = add_file_processed(metrics)
            /\ OnSuccess(f)
       ELSE OnFailure(f, metrics)
    /\ UNCHANGED <<max_concurrent_files, max_concurrent_downloads, retry_attempts,
                   download_semaphore, drv, enumFailed, admitted, active_tasks>>
    /\ UNCHANGED <<cvars, svars, dvars, kvars, bvars, tvars, gvars>>

\* the backoff sleep ends: the finally clause closes the file, and the loop
\* starts the next attempt on the same handle; were the loop over, control
\* would fall to the trailing `return False`
SleepDone(f) ==
    /\ tasks[f].pc = "sleep" /\ ~tasks[f].cancel
    /\ LET more == tasks[f].attempt + 1 < retry_attempts
       IN IF more
          THEN /\ tasks' = [tasks EXCEPT ![f].pc = "parse", ![f].closed = TRUE,
                                         ![f].usedClosed = TRUE,
                                         ![f].attempt = @ + 1, ![f].calls = @ + 1]
               /\ UNCHANGED file_processing_semaphore
          ELSE /\ tasks' = [tasks EXCEPT ![f].pc = "done", ![f].closed = TRUE,
                                         ![f].attempt = @ + 1, ![f].result = "false"]
               /\ file_processing_semaphore' = file_processing_semaphore + 1
    /\ UNCHANGED <<max_concurrent_files, max_concurrent_downloads, retry_attempts,
                   download_semaphore, metrics, drv, enumFailed, admitted,
                   active_tasks>>
    /\ UNCHANGED <<cvars, svars, dvars, kvars, bvars, tvars, gvars>>

\* CancelledError is thrown into the task at its await: it is not an
\* Exception, so only the finally clauses and the `async with` exits run
TaskCancelled(f) ==
    /\ tasks[f].cancel /\ ~Finished(tasks[f])
    /\ tasks' = [tasks EXCEPT ![f].pc = "cancelled", ![f].result = "cancelled",
                              ![f].cancel = FALSE,
                              ![f].closed = IF HoldsSlot(tasks[f]) THEN TRUE ELSE @]
    /\ file_processing_semaphore' =
          IF HoldsSlot(tasks[f]) THEN file_processing_semaphore + 1
          ELSE file_processing_semaphore
    /\ download_semaphore' =
          IF HoldsDownload(tasks[f]) THEN download_semaphore + 1
          ELSE download_semaphore
    /\ UNCHANGED <<max_concurrent_files, max_concurrent_downloads, retry_attempts,
                   metrics, drv, enumFailed, admitted, active_tasks>>
    /\ UNCHANGED <<cvars, svars, dvars, kvars, bvars, tvars, gvars>>

Next ==
    \/ \E c \in BOOLEAN : ListYield(c)
    \/ ListExhausted
    \/ ListRaise
    \/ WaitFirstCompleted
    \/ WaitAll
    \/ Cleanup
    \/ Gather
    \/ \E f \in Files : AcquireSlot(f)
    \/ \E f \in Files, ok \in BOOLEAN : ParseDone(f, ok)
    \/ \E f \in Files : AcquireDownload(f)
    \/ \E f \in Files, ok \in BOOLEAN : UploadDone(f, ok)
    \/ \E f \in Files, ok \in BOOLEAN : IndexDone(f, ok)
    \/ \E f \in Files : SleepDone(f)
    \/ \E f \in Files : TaskCancelled(f)

\* ---------------------------------------------- EnhancedSharePointConnector
\* downloads[i].pc:
\*   "none"     no download coroutine for this item
\*   "wait"     scheduled, not yet past `async with semaphore`
\*   "download" holds a download slot and a client, awaiting the content
\*   "sleep"    holds a download slot, awaiting the retry asyncio.sleep
\*   "done"     _download_file_with_semaphore returned (result "file" or "None")
\* attempt: the loop variable of _download_file_with_retry
\* calls:   download attempts started for the item
\* last_category: category of the classified error of the last failed attempt
\* consumed: as_completed has handed the result to list_files
NoDownload ==
    [pc |-> "none", attempt |-> 0, calls |-> 0, last_category |-> "none",
     result |-> "none", consumed |-> FALSE]

\* SyncState(); a file's identifier is its web_url, one per item
NewSyncState ==
    [last_sync_timestamp |-> None,
     processed_files |-> {}, failed_files |-> {}, skipped_files |-> {},
     total_files_processed |-> 0,
     last_successful_sync |-> None,
     incremental_sync_enabled |-> TRUE]

\* the sync state file: <<>> when it does not exist, else <<data>> where data
\* holds the keys the code reads back, a missing key standing at the default
\* its data.get(...) supplies
NoSyncFile == <<>>

\* _load_sync_state that leaves processed_files empty
load_sync_state_drops_processed(file) ==
    IF file = <<>> THEN NewSyncState
    ELSE [file[1] EXCEPT !.processed_files = {}]

\* _load_sync_state, called by __init__ on a fresh SyncState()
load_sync_state(file) == IF file = NoSyncFile THEN NewSyncState ELSE file[1]

\* open(self.sync_state_file, 'w') and json.dump: the old content is gone
rewrite(old_file, new_file) == new_file

\* _save_sync_state: every field of self.sync_state goes to the file
save_sync_state(st) == <<st>>

\* SharePointConnector.get_last_sync_timestamp: the file's last_sync_timestamp
get_last_sync_timestamp(file) ==
    IF file = NoSyncFile THEN None ELSE file[1].last_sync_timestamp

\* SharePointConnector.set_last_sync_timestamp: the file is rewritten with
\* the timestamp alone
set_last_sync_timestamp(timestamp) ==
    <<[NewSyncState EXCEPT !.last_sync_timestamp = <<timestamp>>]>>

\* _download_file_with_retry: `if file_url in self.sync_state.processed_files`
SkipProcessedNever(url, st) == FALSE

SkipProcessed(url, st) == url \in st.processed_files

\* _download_file_with_retry: `if file_url in self.sync_state.failed_files`
SkipFailed(url, st) == url \in st.failed_files

\* reset_sync_state: self.sync_state = SyncState()
reset_keeps_processed(st) ==
    [NewSyncState EXCEPT !.processed_files = st.processed_files]

reset_value(st) == NewSyncState

\* the exceptions a download attempt raises in the model: the TimeoutError
\* built on asyncio.TimeoutError, an HTTP 401, an HTTP 429 with Retry-After: 60
DownloadExceptions ==
    {PlainError({"timeout"}, {"timeout"}),
     HttpError(401, NoHeader, {}),
     HttpError(429, [kind |-> "int", val |-> 60], {"too many requests"})}

InDownloadSlot(d) == d.pc \in {"download", "sleep"}

\* `async with semaphore` in _download_file_with_semaphore
ConnDownloadGateAlwaysOpen(value) == TRUE

ConnDownloadGate(value) == value > 0

\* `if attempt < self.retry_attempts - 1` in _download_file_with_retry
DownloadRetryAfterFailure(attempt, n) == attempt < n - 1

\* _get_client_from_pool: pop a pooled client, or create a new one
get_client_from_pool(pool) == IF pool > 0 THEN pool - 1 ELSE pool

\* _return_client_to_pool: append unless the pool is full
return_client_to_pool(pool, size) == IF pool < size THEN pool + 1 ELSE pool

\* _get_folder_items: the file items of the library, less those last
\* modified at or before the cutoff when there is one
folder_items(src, mt, last_modified_after) ==
    {i \in src : ~(last_modified_after # None /\ mt[i] <= last_modified_after[1])}

\* the connector's variables, connection_pool_size apart, while no list_files
\* is modelled
IdleListFiles ==
    /\ conn_max_concurrent_downloads = MinConfigValue
    /\ conn_retry_attempts = MinConfigValue
    /\ semaphore = conn_max_concurrent_downloads
    /\ client_pool = 0
    /\ sync_state = NewSyncState
    /\ gen = "off"
    /\ yielded_item = 0
    /\ downloads = [i \in Files |-> NoDownload]
    /\ enable_incremental_sync = TRUE
    /\ sync_state_file = NoSyncFile
    /\ clock = FirstInstant
    /\ source = {}
    /\ mtime = [i \in Files |-> 0]
    /\ run = 0
    /\ handed = [i \in Files |-> "none"]

IdleConnector ==
    /\ IdleListFiles
    /\ connection_pool_size = MinConfigValue

\* __init__ with no sync state file, then list_files is called; the library
\* holds n files, all last modified before the first run
InitConnector ==
    /\ conn_max_concurrent_downloads \in MinConfigValue..MaxConcurrentDownloads
    /\ conn_retry_attempts \in MinConfigValue..MaxRetryAttempts
    /\ connection_pool_size \in MinConfigValue..MaxPoolSize
    /\ semaphore = conn_max_concurrent_downloads
    /\ client_pool = 0
    /\ sync_state = load_sync_state(NoSyncFile)
    /\ gen = "start"
    /\ yielded_item = 0
    /\ downloads = [i \in Files |-> NoDownload]
    /\ enable_incremental_sync \in BOOLEAN
    /\ sync_state_file = NoSyncFile
    /\ clock = FirstInstant
    /\ \E n \in 0..MaxFiles : source = 1..n
    /\ mtime = [i \in Files |-> 0]
    /\ run = 1
    /\ handed = [i \in Files |-> "none"]

\* list_files up to the download loop: connect, read the cutoff, discover the
\* file items, build one download coroutine per item; as_completed schedules
\* them all at once
DiscoverFiles ==
    /\ gen = "start"
    /\ LET last_modified_after ==
               IF enable_incremental_sync /\ sync_state.incremental_sync_enabled
               THEN get_last_sync_timestamp(sync_state_file) ELSE None
           file_items == folder_items(source, mtime, last_modified_after)
       IN downloads' = [i \in Files |->
                          IF i \in file_items
                          THEN [NoDownload EXCEPT !.pc = "wait"] ELSE NoDownload]
    /\ semaphore' = conn_max_concurrent_downloads
    /\ gen' = "downloads"
    /\ UNCHANGED <<conn_max_concurrent_downloads, conn_retry_attempts,
                   connection_pool_size, client_pool, sync_state, yielded_item>>
    /\ UNCHANGED svars
    /\ UNCHANGED <<pvars, dvars, kvars, bvars, tvars, gvars>>

\* connecting or discovering raises: mark_failed, and the error propagates
DiscoverRaise ==
    /\ gen = "start"
    /\ gen' = "raised"
    /\ UNCHANGED <<conn_max_concurrent_downloads, conn_retry_attempts,
                   connection_pool_size, semaphore, client_pool, sync_state,
                   yielded_item, downloads>>
    /\ UNCHANGED svars
    /\ UNCHANGED <<pvars, dvars, kvars, bvars, tvars, gvars>>

\* a download task passes the semaphore and runs _download_file_with_retry
\* up to its first await: the two skip checks, then the first attempt
DownloadAcquire(i) ==
    /\ downloads[i].pc = "wait"
    /\ ConnDownloadGate(semaphore)
    /\ IF SkipProcessed(i, sync_state)
       THEN /\ sync_state' = [sync_state EXCEPT !.skipped_files = @ \cup {i}]
            /\ downloads' = [downloads EXCEPT ![i].pc = "done", ![i].result = "None"]
            /\ UNCHANGED <<semaphore, client_pool>>
       ELSE IF SkipFailed(i, sync_state)
       THEN /\ downloads' = [downloads EXCEPT ![i].pc = "done", ![i].result = "None"]
            /\ UNCHANGED <<semaphore, client_pool, sync_state>>
       ELSE /\ semaphore' = semaphore - 1
            /\ client_pool' = get_client_from_pool(client_pool)
            /\ downloads' = [downloads EXCEPT ![i].pc = "download", ![i].calls = @ + 1]
            /\ UNCHANGED sync_state
    /\ UNCHANGED <<conn_max_concurrent_downloads, conn_retry_attempts,
                   connection_pool_size, gen, yielded_item>>
    /\ UNCHANGED svars
    /\ UNCHANGED <<pvars, dvars, kvars, bvars, tvars, gvars>>

\* the attempt downloads the content: the client goes back to the pool and
\* the SharePointFile is returned
DownloadSucceed(i) ==
    /\ downloads[i].pc = "download"
    /\ client_pool' = return_client_to_pool(client_pool, connection_pool_size)
    /\ downloads' = [downloads EXCEPT ![i].pc = "done", ![i].result = "file"]
    /\ semaphore' = semaphore + 1
    /\ UNCHANGED <<conn_max_concurrent_downloads, conn_retry_attempts,
                   connection_pool_size, sync_state, gen, yielded_item>>
    /\ UNCHANGED svars
    /\ UNCHANGED <<pvars, dvars, kvars, bvars, tvars, gvars>>

\* the attempt raises e (a timeout included): the client goes back to the
\* pool; with attempts left the error is classified and the task sleeps for
\* get_retry_delay, otherwise the item is recorded as failed
DownloadFail(i, e) ==
    /\ downloads[i].pc = "download"
    /\ client_pool' = return_client_to_pool(client_pool, connection_pool_size)
    /\ IF DownloadRetryAfterFailure(downloads[i].attempt, conn_retry_attempts)
       THEN /\ downloads' = [downloads EXCEPT
                               ![i].pc = "sleep",
                               ![i].last_category = classify_exception(e).category]
            /\ UNCHANGED <<semaphore, sync_state>>
       ELSE /\ downloads' = [downloads EXCEPT
                               ![i].pc = "done", ![i].result = "None",
                               ![i].last_category = classify_exception(e).category]
            /\ sync_state' = [sync_state EXCEPT !.failed_files = @ \cup {i}]
            /\ semaphore' = semaphore + 1
    /\ UNCHANGED <<conn_max_concurrent_downloads, conn_retry_attempts,
                   connection_pool_size, gen, yielded_item>>
    /\ UNCHANGED svars
    /\ UNCHANGED <<pvars, dvars, kvars, bvars, tvars, gvars>>

\* the retry sleep ends: the next attempt takes a client and starts
DownloadSleepDone(i) ==
    /\ downloads[i].pc = "sleep"
    /\ client_pool' = get_client_from_pool(client_pool)
    /\ downloads' = [downloads EXCEPT ![i].pc = "download", ![i].attempt = @ + 1,
                                      ![i].calls = @ + 1]
    /\ UNCHANGED <<conn_max_concurrent_downloads, conn_retry_attempts,
                   connection_pool_size, semaphore, sync_state, gen, yielded_item>>
    /\ UNCHANGED svars
    /\ UNCHANGED <<pvars, dvars, kvars, bvars, tvars, gvars>>

\* `sharepoint_file = await completed_task`: the next finished download; a
\* file is yielded to the caller, which takes it over; None is passed over
NextCompleted(i) ==
    /\ gen = "downloads"
    /\ downloads[i].pc = "done" /\ ~downloads[i].consumed
    /\ downloads' = [downloads EXCEPT ![i].consumed = TRUE]
    /\ IF downloads[i].result = "file"
       THEN /\ gen' = "yielded" /\ yielded_item' = i
            /\ handed' = [handed EXCEPT ![i] = "pending"]
       ELSE UNCHANGED <<gen, yielded_item, handed>>
    /\ UNCHANGED <<conn_max_concurrent_downloads, conn_retry_attempts,
                   connection_pool_size, semaphore, client_pool, sync_state>>
    /\ UNCHANGED <<enable_incremental_sync, sync_state_file, clock, source,
                   mtime, run>>
    /\ UNCHANGED <<pvars, dvars, kvars, bvars, tvars, gvars>>

\* the caller asks for the next file: the generator resumes after its yield
\* and records the yielded file as processed
ResumeAfterYield ==
    /\ gen = "yielded"
    /\ sync_state' = [sync_state EXCEPT
                        !.processed_files = @ \cup {yielded_item},
                        !.total_files_processed = @ + 1]
    /\ gen' = "downloads"
    /\ yielded_item' = 0
    /\ UNCHANGED <<conn_max_concurrent_downloads, conn_retry_attempts,
                   connection_pool_size, semaphore, client_pool, downloads>>
    /\ UNCHANGED svars
    /\ UNCHANGED <<pvars, dvars, kvars, bvars, tvars, gvars>>

\* every download has been handed over: list_files completes. With
\* incremental sync on, set_last_sync_timestamp writes the file, then
\* last_successful_sync is set and _save_sync_state rewrites the file from
\* self.sync_state
ListFilesDone ==
    /\ gen = "downloads"
    /\ \A i \in Files : downloads[i].pc # "none" => downloads[i].consumed
    /\ gen' = "done"
    /\ IF enable_incremental_sync
       THEN LET current_time == clock
                timestamp_file == set_last_sync_timestamp(current_time)
                st == [sync_state EXCEPT !.last_successful_sync = <<current_time>>]
            IN /\ sync_state' = st
               /\ sync_state_file' = rewrite(timestamp_file, save_sync_state(st))
       ELSE UNCHANGED <<sync_state, sync_state_file>>
    /\ clock' = clock + 1
    /\ UNCHANGED <<conn_max_concurrent_downloads, conn_retry_attempts,
                   connection_pool_size, semaphore, client_pool,
                   yielded_item, downloads>>
    /\ UNCHANGED <<enable_incremental_sync, source, mtime, run, handed>>
    /\ UNCHANGED <<pvars, dvars, kvars, bvars, tvars, gvars>>

NextConnector ==
    \/ DiscoverFiles
    \/ DiscoverRaise
    \/ \E i \in Files : DownloadAcquire(i)
    \/ \E i \in Files : DownloadSucceed(i)
    \/ \E i \in Files, e \in DownloadExceptions : DownloadFail(i, e)
    \/ \E i \in Files : DownloadSleepDone(i)
    \/ \E i \in Files : NextCompleted(i)
    \/ ResumeAfterYield
    \/ ListFilesDone

\* ------------------------------------------- runs over a persisted state
\* a later run: a new connector is constructed, its __init__ loads the sync
\* state file, and list_files is called
StartRun ==
    /\ gen \in {"done", "raised"}
    /\ run < MaxRuns
    /\ run' = run + 1
    /\ sync_state' = load_sync_state(sync_state_file)
    /\ semaphore' = conn_max_concurrent_downloads
    /\ client_pool' = 0
    /\ gen' = "start"
    /\ yielded_item' = 0
    /\ downloads' = [i \in Files |-> NoDownload]
    /\ UNCHANGED <<conn_max_concurrent_downloads, conn_retry_attempts,
                   connection_pool_size>>
    /\ UNCHANGED <<enable_incremental_sync, sync_state_file, clock, source,
                   mtime, handed>>
    /\ UNCHANGED <<pvars, dvars, kvars, bvars, tvars, gvars>>

\* reset_sync_state, called while no list_files is under way
ResetSyncState ==
    /\ gen \in {"start", "done", "raised"}
    /\ sync_state' = reset_value(sync_state)
    /\ sync_state_file' = save_sync_state(sync_state')
    /\ UNCHANGED <<conn_max_concurrent_downloads, conn_retry_attempts,
                   connection_pool_size, semaphore, client_pool, gen,
                   yielded_item, downloads>>
    /\ UNCHANGED <<enable_incremental_sync, clock, source, mtime, run, handed>>
    /\ UNCHANGED <<pvars, dvars, kvars, bvars, tvars, gvars>>

\* between two runs a file of the library is modified
ModifyFile(i) ==
    /\ gen \in {"done", "raised"}
    /\ i \in source
    /\ clock < MaxClock
    /\ mtime' = [mtime EXCEPT ![i] = clock]
    /\ clock' = clock + 1
    /\ UNCHANGED cvars
    /\ UNCHANGED <<enable_incremental_sync, sync_state_file, source, run, handed>>
    /\ UNCHANGED <<pvars, dvars, kvars, bvars, tvars, gvars>>

\* the caller of list_files (the ingestion pipeline) ends its work on a file
\* it was handed: indexed (ok) or failed on every attempt
CallerOutcome(i, ok) ==
    /\ handed[i] = "pending"
    /\ handed' = [handed EXCEPT ![i] = IF ok THEN "true" ELSE "false"]
    /\ UNCHANGED cvars
    /\ UNCHANGED <<enable_incremental_sync, sync_state_file, clock, source,
                   mtime, run>>
    /\ UNCHANGED <<pvars, dvars, kvars, bvars, tvars, gvars>>

NextSync ==
    \/ NextConnector
    \/ StartRun
    \/ ResetSyncState
    \/ \E i \in Files : ModifyFile(i)

NextHandoff ==
    \/ NextConnector
    \/ \E i \in Files, ok \in BOOLEAN : CallerOutcome(i, ok)

\* --------------------------------- classify_exception called on its own
\* status codes a response carries in the model
StatusCodes == {200, 302, 400, 401, 403, 404, 418, 429, 500, 503}

\* Retry-After headers: none, "0", "60", an HTTP date, a non-text object
RetryAfterHeaders ==
    {NoHeader, [kind |-> "int", val |-> 0], [kind |-> "int", val |-> 60],
     [kind |-> "text", val |-> 0], [kind |-> "object", val |-> 0]}

\* the substrings classify_exception looks for in the lowercased type name
TypeCues == {"timeout", "connection", "network"}

\* substrings a lowercased message may hold: those classify_exception looks
\* for, and "connection" and "network", which it looks for in the type name
MsgCues ==
    {"timeout", "connection", "network", "authentication", "token", "expired",
     "rate limit", "throttl", "too many requests", "file too large",
     "size limit", "unsupported", "file", "invalid site", "site not found",
     "document library", "not found"}

\* a text that holds "file too large" holds "file", and one that holds
\* "site not found" holds "not found"
CueClosure(S) ==
    S \cup (IF "file too large" \in S THEN {"file"} ELSE {})
      \cup (IF "site not found" \in S THEN {"not found"} ELSE {})

\* the cue sets of texts built from at most MaxCues cues
CueSets(cues) == {CueClosure(S) : S \in {T \in SUBSET cues : Cardinality(T) <= MaxCues}}

\* the exceptions handed to classify_exception
Exceptions ==
    [response : {TRUE},
     status : {None} \cup {<<s>> : s \in StatusCodes},
     header : RetryAfterHeaders,
     type : CueSets(TypeCues),
     msg : CueSets(MsgCues)]
    \cup
    [response : {FALSE}, status : {None}, header : {NoHeader},
     type : CueSets(TypeCues), msg : CueSets(MsgCues)]

IdleClassify ==
    /\ k_exception = PlainError({}, {})
    /\ k_result = <<>>

InitClassify ==
    /\ k_exception \in Exceptions
    /\ k_result = <<>>

CallClassifyException ==
    /\ k_result = <<>>
    /\ k_result' = <<classify_exception(k_exception)>>
    /\ UNCHANGED k_exception
    /\ UNCHANGED <<pvars, cvars, svars, dvars, bvars, tvars, gvars>>

NextClassify == CallClassifyException

\* ------------------------------------------------------- CircuitBreaker
\* the coroutines that call a function wrapped by one CircuitBreaker
Callers == 1..MaxCallers

\* callers[c].pc: "idle" (not inside the wrapper) or "running" (awaiting the
\* wrapped function); outcome: how the caller's last call ended: "returned",
\* or the type of the exception that reached the caller
NoCall == [pc |-> "idle", outcome |-> "none"]

\* the classes that derive from BaseException; SharePointError is a plain
\* dataclass and is not among them
ExceptionClasses == {"Exception", "TypeError"}

\* `raise value`: raising an object whose class does not derive from
\* BaseException raises TypeError in its place
Raise(class) == IF class \in ExceptionClasses THEN class ELSE "TypeError"

\* CircuitBreaker._should_attempt_reset
should_attempt_reset(lft, t, timeout) ==
    IF lft = None THEN TRUE ELSE t - lft[1] >= timeout

\* _on_failure: `if self.failure_count >= self.failure_threshold`
OpensAboveThreshold(count, threshold) == count > threshold

OpensAt(count, threshold) == count >= threshold

IdleBreaker ==
    /\ failure_threshold = MinConfigValue
    /\ recovery_timeout = MinConfigValue
    /\ breaker_state = "closed"
    /\ failure_count = 0
    /\ last_failure_time = None
    /\ now = 0
    /\ callers = [c \in Callers |-> NoCall]
    /\ tripped = FALSE

\* CircuitBreaker.__init__
InitBreaker ==
    /\ failure_threshold \in 1..MaxThreshold
    /\ recovery_timeout \in 1..MaxRecoveryTimeout
    /\ breaker_state = "closed"
    /\ failure_count = 0
    /\ last_failure_time = None
    /\ now = 0
    /\ callers = [c \in Callers |-> NoCall]
    /\ tripped = FALSE

\* wrapper, up to `await func(...)`: an open breaker either moves to
\* half_open or turns the call away with `raise SharePointError(...)`
CallBegin(c) ==
    /\ callers[c].pc = "idle"
    /\ IF breaker_state = "open"
       THEN IF should_attempt_reset(last_failure_time, now, recovery_timeout)
            THEN /\ breaker_state' = "half_open"
                 /\ tripped' = FALSE
                 /\ callers' = [callers EXCEPT ![c].pc = "running"]
            ELSE /\ callers' = [callers EXCEPT ![c].outcome = Raise("SharePointError")]
                 /\ UNCHANGED <<breaker_state, tripped>>
       ELSE /\ callers' = [callers EXCEPT ![c].pc = "running"]
            /\ UNCHANGED <<breaker_state, tripped>>
    /\ UNCHANGED <<failure_threshold, recovery_timeout, failure_count,
                   last_failure_time, now>>
    /\ UNCHANGED <<pvars, cvars, svars, dvars, kvars, tvars, gvars>>

\* the wrapped function returns: _on_success
CallReturn(c) ==
    /\ callers[c].pc = "running"
    /\ failure_count' = 0
    /\ breaker_state' = "closed"
    /\ callers' = [callers EXCEPT ![c] = [pc |-> "idle", outcome |-> "returned"]]
    /\ UNCHANGED <<failure_threshold, recovery_timeout, last_failure_time, now,
                   tripped>>
    /\ UNCHANGED <<pvars, cvars, svars, dvars, kvars, tvars, gvars>>

\* the wrapped function raises an expected exception: _on_failure, re-raise
CallRaise(c) ==
    /\ callers[c].pc = "running"
    /\ failure_count' = failure_count + 1
    /\ last_failure_time' = <<now>>
    /\ IF OpensAt(failure_count', failure_threshold)
       THEN breaker_state' = "open" /\ tripped' = TRUE
       ELSE UNCHANGED <<breaker_state, tripped>>
    /\ callers' = [callers EXCEPT ![c] = [pc |-> "idle", outcome |-> Raise("Exception")]]
    /\ UNCHANGED <<failure_threshold, recovery_timeout, now>>
    /\ UNCHANGED <<pvars, cvars, svars, dvars, kvars, tvars, gvars>>

\* time passes
Tick ==
    /\ now < MaxNow
    /\ now' = now + 1
    /\ UNCHANGED <<failure_threshold, recovery_timeout, breaker_state,
                   failure_count, last_failure_time, callers, tripped>>
    /\ UNCHANGED <<pvars, cvars, svars, dvars, kvars, tvars, gvars>>

NextBreaker ==
    \/ \E c \in Callers : CallBegin(c)
    \/ \E c \in Callers : CallReturn(c)
    \/ \E c \in Callers : CallRaise(c)
    \/ Tick

\* ------------------------------------------------------- ProgressTracker
RECURSIVE GCD(_, _)
GCD(a, b) == IF b = 0 THEN a ELSE GCD(b, a % b)

\* a rational in lowest terms (same value)
Norm(r) == LET g == GCD(r[1], r[2]) IN IF g = 0 THEN r ELSE <<r[1] \div g, r[2] \div g>>

RatAdd(a, b) == Norm(<<a[1] * b[2] + b[1] * a[2], a[2] * b[2]>>)

RatDiv(a, b) == Norm(<<a[1] * b[2], a[2] * b[1]>>)

\* ProgressStage (the enum's values)
ProgressStage ==
    {"initializing", "connecting", "authenticating", "discovering_files",
     "downloading_files", "processing_files", "updating_index", "cleanup",
     "completed", "failed"}

\* the dict stage_weights of _calculate_overall_progress, in its order
stage_weights ==
    << <<"initializing", 5>>, <<"connecting", 5>>, <<"authenticating", 10>>,
       <<"discovering_files", 15>>, <<"downloading_files", 35>>,
       <<"processing_files", 25>>, <<"updating_index", 5>>, <<"cleanup", 0>>,
       <<"completed", 0>> >>

\* a ProgressUpdate, by the fields its percentage reads
ProgressUpdate(current, total) == [current |-> current, total |-> total]

\* ProgressUpdate.percentage
percentage(u) ==
    IF u.total = 0 THEN Rat(0, 1)
    ELSE RatMin(Rat(100, 1), Norm(RatMul(Rat(u.current, u.total), Rat(100, 1))))

\* sum(stage_weights.values()), over the first k entries
RECURSIVE SumWeights(_)
SumWeights(k) == IF k = 0 THEN 0 ELSE stage_weights[k][2] + SumWeights(k - 1)

\* the loop of _calculate_overall_progress over the first k entries
RECURSIVE WeightedProgress(_, _)
WeightedProgress(sp, k) ==
    IF k = 0 THEN Rat(0, 1)
    ELSE LET stage == stage_weights[k][1]
             weight == stage_weights[k][2]
             rest == WeightedProgress(sp, k - 1)
         IN IF sp[stage] # None
            THEN RatAdd(rest, RatDiv(RatMul(percentage(sp[stage][1]), Rat(weight, 1)),
                                     Rat(100, 1)))
            ELSE rest

\* _calculate_overall_progress: the value it leaves in self.overall_progress
calculate_overall_progress(sp) ==
    LET total_weight == SumWeights(Len(stage_weights))
        weighted_progress == WeightedProgress(sp, Len(stage_weights))
    IN RatMin(Rat(100, 1),
              Norm(RatMul(RatDiv(weighted_progress, Rat(total_weight, 1)), Rat(100, 1))))

\* mark_completed: `self.overall_progress = 100.0` after its update_stage
CompletedProgressComputed(computed) == computed

CompletedProgress(computed) == Rat(100, 1)

\* the capacity of the deque self.history
HistoryMaxLen == 1000

\* the values of current and of total handed to update_stage: a stage may
\* stand at nothing, at a half, at its total or beyond it
Counts == {0, 1, 2}

\* ProgressTracker.__init__
InitTracker ==
    /\ current_stage = "initializing"
    /\ stage_progress = [s \in ProgressStage |-> None]
    /\ overall_progress = Rat(0, 1)
    /\ history = 0
    /\ tracker_call = "none"

\* update_stage up to _calculate_overall_progress: the new ProgressUpdate
\* becomes the stage's entry and is appended to the history
StageUpdate(stage, current, total) ==
    /\ current_stage' = stage
    /\ stage_progress' = [stage_progress EXCEPT
                            ![stage] = <<ProgressUpdate(current, total)>>]
    /\ history' = Min(history + 1, HistoryMaxLen)

\* ProgressTracker.update_stage (a callback that raises is logged and passed
\* over)
UpdateStage(stage, current, total) ==
    /\ history < MaxUpdates
    /\ StageUpdate(stage, current, total)
    /\ overall_progress' = calculate_overall_progress(stage_progress')
    /\ tracker_call' = "update_stage"
    /\ UNCHANGED <<pvars, cvars, svars, dvars, kvars, bvars, gvars>>

\* ProgressTracker.mark_completed
MarkCompleted ==
    /\ history < MaxUpdates
    /\ StageUpdate("completed", 1, 1)
    /\ overall_progress' = CompletedProgress(calculate_overall_progress(stage_progress'))
    /\ tracker_call' = "mark_completed"
    /\ UNCHANGED <<pvars, cvars, svars, dvars, kvars, bvars, gvars>>

\* ProgressTracker.mark_failed
MarkFailed ==
    /\ history < MaxUpdates
    /\ StageUpdate("failed", 0, 1)
    /\ overall_progress' = calculate_overall_progress(stage_progress')
    /\ tracker_call' = "mark_failed"
    /\ UNCHANGED <<pvars, cvars, svars, dvars, kvars, bvars, gvars>>

NextProgress ==
    \/ \E stage \in ProgressStage, current \in Counts, total \in Counts :
          UpdateStage(stage, current, total)
    \/ MarkCompleted
    \/ MarkFailed

\* ------------------------------------------ the Graph client connection pool
\* the download operations of _download_file_with_retry, one per file, seen
\* from the pool. ops[i].pc:
\*   "idle"      between attempts, holding no client
\*   "creating"  inside _get_client_from_pool, holding client_pool_lock and
\*               awaiting _create_new_client
\*   "using"     awaiting the download with its client
\*   "returning" in the finally clause, awaiting _return_client_to_pool
\* client: the client the operation holds (0: none); clients are numbered in
\*         the order _create_new_client returned them
\* pooled: the client it holds was popped from the pool
\* attempt: attempts of the operation that are over
NoOp == [pc |-> "idle", client |-> 0, pooled |-> FALSE, attempt |-> 0]

NoHolder == 0

\* _return_client_to_pool: `if len(self.client_pool) < self.connection_pool_size`
ReturnToPoolAlways(pool, client, size) == Append(pool, client)

ReturnToPool(pool, client, size) ==
    IF Len(pool) < size THEN Append(pool, client) ELSE pool

\* EnhancedSharePointConnector.__init__: an empty pool, a free lock
InitPool ==
    /\ pooled_clients = <<>>
    /\ client_pool_lock = NoHolder
    /\ ops = [i \in Files |-> NoOp]
    /\ clients_created = 0

\* _get_client_from_pool up to its first await past the lock: pop the last
\* pooled client, or start _create_new_client with the lock held
GetClientFromPool(i) ==
    /\ ops[i].pc = "idle"
    /\ ops[i].attempt < MaxRetryAttempts
    /\ client_pool_lock = NoHolder
    /\ IF pooled_clients # <<>>
       THEN /\ ops' = [ops EXCEPT ![i].pc = "using", ![i].pooled = TRUE,
                                  ![i].client = pooled_clients[Len(pooled_clients)]]
            /\ pooled_clients' = SubSeq(pooled_clients, 1, Len(pooled_clients) - 1)
            /\ UNCHANGED client_pool_lock
       ELSE /\ ops' = [ops EXCEPT ![i].pc = "creating"]
            /\ client_pool_lock' = i
            /\ UNCHANGED pooled_clients
    /\ UNCHANGED clients_created
    /\ UNCHANGED <<conn_max_concurrent_downloads, conn_retry_attempts,
                   connection_pool_size, semaphore, client_pool, sync_state,
                   gen, yielded_item, downloads>>
    /\ UNCHANGED <<pvars, svars, dvars, kvars, bvars, tvars>>

\* _create_new_client returns a new client: the lock is released and the
\* download starts
CreateNewClientDone(i) ==
    /\ ops[i].pc = "creating"
    /\ clients_created' = clients_created + 1
    /\ ops' = [ops EXCEPT ![i].pc = "using", ![i].pooled = FALSE,
                          ![i].client = clients_created']
    /\ client_pool_lock' = NoHolder
    /\ UNCHANGED pooled_clients
    /\ UNCHANGED <<conn_max_concurrent_downloads, conn_retry_attempts,
                   connection_pool_size, semaphore, client_pool, sync_state,
                   gen, yielded_item, downloads>>
    /\ UNCHANGED <<pvars, svars, dvars, kvars, bvars, tvars>>

\* _create_new_client raises: the lock is released and the attempt is over
\* without a client
CreateNewClientRaise(i) ==
    /\ ops[i].pc = "creating"
    /\ ops' = [ops EXCEPT ![i].pc = "idle", ![i].attempt = @ + 1]
    /\ client_pool_lock' = NoHolder
    /\ UNCHANGED <<pooled_clients, clients_created>>
    /\ UNCHANGED <<conn_max_concurrent_downloads, conn_retry_attempts,
                   connection_pool_size, semaphore, client_pool, sync_state,
                   gen, yielded_item, downloads>>
    /\ UNCHANGED <<pvars, svars, dvars, kvars, bvars, tvars>>

\* the download returns, raises or times out: control reaches the finally
\* clause
DownloadEnds(i) ==
    /\ ops[i].pc = "using"
    /\ ops' = [ops EXCEPT ![i].pc = "returning"]
    /\ UNCHANGED <<pooled_clients, client_pool_lock, clients_created>>
    /\ UNCHANGED <<conn_max_concurrent_downloads, conn_retry_attempts,
                   connection_pool_size, semaphore, client_pool, sync_state,
                   gen, yielded_item, downloads>>
    /\ UNCHANGED <<pvars, svars, dvars, kvars, bvars, tvars>>

\* _return_client_to_pool, once the lock is free
ReturnClientToPool(i) ==
    /\ ops[i].pc = "returning"
    /\ client_pool_lock = NoHolder
    /\ pooled_clients' = ReturnToPool(pooled_clients, ops[i].client,
                                      connection_pool_size)
    /\ ops' = [ops EXCEPT ![i].pc = "idle", ![i].client = 0, ![i].pooled = FALSE,
                          ![i].attempt = @ + 1]
    /\ UNCHANGED <<client_pool_lock, clients_created>>
    /\ UNCHANGED <<conn_max_concurrent_downloads, conn_retry_attempts,
                   connection_pool_size, semaphore, client_pool, sync_state,
                   gen, yielded_item, downloads>>
    /\ UNCHANGED <<pvars, svars, dvars, kvars, bvars, tvars>>

NextPool ==
    \/ \E i \in Files : GetClientFromPool(i)
    \/ \E i \in Files : CreateNewClientDone(i)
    \/ \E i \in Files : CreateNewClientRaise(i)
    \/ \E i \in Files : DownloadEnds(i)
    \/ \E i \in Files : ReturnClientToPool(i)

\* ------------------------------------- get_retry_delay called on its own
IdlePipeline ==
    /\ max_concurrent_files = MinConfigValue
    /\ max_concurrent_downloads = MinConfigValue
    /\ retry_attempts = MinConfigValue
    /\ file_processing_semaphore = max_concurrent_files
    /\ download_semaphore = max_concurrent_downloads
    /\ metrics = NewMetrics
    /\ drv = "idle"
    /\ enumFailed = FALSE
    /\ admitted = 0
    /\ active_tasks = {}
    /\ tasks = [f \in Files |-> NoTask]

IdleDelay ==
    /\ d_error = [category |-> "unknown", retry_after |-> None]
    /\ d_attempt = 0
    /\ d_base = Rat(1, 1)
    /\ d_delay = <<>>

InitDelay ==
    /\ d_error \in [category : SharePointErrorCategory, retry_after : RetryAfterValues]
    /\ d_attempt \in 0..MaxAttemptIndex
    /\ d_base \in BaseDelays
    /\ d_delay = <<>>
    /\ IdlePipeline
    /\ IdleConnector
    /\ IdleClassify
    /\ IdleBreaker
    /\ InitTracker
    /\ InitPool

CallGetRetryDelay ==
    /\ d_delay = <<>>
    /\ d_delay' = <<get_retry_delay(d_error, d_attempt, d_base)>>
    /\ UNCHANGED <<d_error, d_attempt, d_base>>
    /\ UNCHANGED <<pvars, cvars, svars, kvars, bvars, tvars, gvars>>

NextDelay == CallGetRetryDelay

SpecDelay == InitDelay /\ [][NextDelay]_vars

\* a run of EnhancedFileStrategy._run_concurrent_add over an abstract source
Init ==
    /\ InitPipeline /\ IdleConnector /\ IdleDelay /\ IdleClassify /\ IdleBreaker
    /\ InitTracker /\ InitPool

Spec == Init /\ [][Next]_vars

\* the same run under the event loop's scheduling: a coroutine that can take
\* a step is run, and every awaited operation ends
SpecLive == Init /\ [][Next]_vars /\ WF_vars(Next)

\* a run of EnhancedSharePointConnector.list_files with an abstract caller
InitConn ==
    /\ InitConnector /\ IdlePipeline /\ IdleDelay /\ IdleClassify /\ IdleBreaker
    /\ InitTracker /\ InitPool

SpecConn == InitConn /\ [][NextConnector]_vars

\* classify_exception applied to one exception
InitClassifier ==
    /\ InitClassify /\ IdlePipeline /\ IdleConnector /\ IdleDelay /\ IdleBreaker
    /\ InitTracker /\ InitPool

SpecClassify == InitClassifier /\ [][NextClassify]_vars

\* coroutines calling a function wrapped by one CircuitBreaker
InitCircuitBreaker ==
    /\ InitBreaker /\ IdlePipeline /\ IdleConnector /\ IdleDelay /\ IdleClassify
    /\ InitTracker /\ InitPool

\* a ProgressTracker and the calls made on it
InitProgress ==
    /\ InitTracker /\ IdlePipeline /\ IdleConnector /\ IdleDelay /\ IdleClassify
    /\ IdleBreaker /\ InitPool

SpecProgress == InitProgress /\ [][NextProgress]_vars

\* download operations taking clients from the pool and returning them
InitClientPool ==
    /\ InitPool /\ IdleListFiles
    /\ connection_pool_size \in MinConfigValue..MaxPoolSize
    /\ IdlePipeline /\ IdleDelay /\ IdleClassify /\ IdleBreaker /\ InitTracker

SpecPool == InitClientPool /\ [][NextPool]_vars

SpecBreaker == InitCircuitBreaker /\ [][NextBreaker]_vars

\* runs of list_files, one after the other, over the same sync state file
SpecSync == InitConn /\ [][NextSync]_vars

\* one run of list_files, and what its caller does with the files it is handed
SpecHandoff == InitConn /\ [][NextHandoff]_vars

\* either of the two: the gates of both components
InitGates == Init \/ InitConn

NextGates == Next \/ NextConnector

SpecGates == InitGates /\ [][NextGates]_vars

\* ================================================================= claims
Admitted == 1..admitted

SlotHolders == {f \in Files : HoldsSlot(tasks[f])}

\* C1: at every instant of a run of _run_concurrent_add the tasks holding a
\* processing slot (retry sleeps included) number at most max_concurrent_files
ProcessingSlotBound == Cardinality(SlotHolders) <= max_concurrent_files

\* every slot is taken, one holder is in its retry sleep, another task waits
ProcessingSlotsFullWithSleeper ==
    /\ Cardinality(SlotHolders) = max_concurrent_files
    /\ \E f \in Files : tasks[f].pc = "sleep"
    /\ \E g \in Files : tasks[g].pc = "created"

\* C2: at every instant the uploads inside _upload_with_semaphore number at
\* most the strategy's max_concurrent_downloads, and the downloads inside
\* _download_file_with_semaphore at most the connector's
TransferGateBound ==
    /\ Cardinality({f \in Files : HoldsDownload(tasks[f])}) <= max_concurrent_downloads
    /\ Cardinality({i \in Files : InDownloadSlot(downloads[i])})
          <= conn_max_concurrent_downloads

\* list_files has scheduled every item; the slots are all taken and a
\* scheduled download still waits at the semaphore
DownloadsFullWithWaiter ==
    /\ gen = "downloads"
    /\ Cardinality({i \in Files : InDownloadSlot(downloads[i])})
          = conn_max_concurrent_downloads
    /\ \E i \in Files : downloads[i].pc = "wait"

\* C3: a run whose enumeration completes returns without raising, and every
\* discovered file has run to its own terminal outcome, whichever files failed
BatchSurvivesFailures ==
    /\ drv = "raised" => enumFailed
    /\ drv = "done" =>
          \A f \in Admitted :
             tasks[f].pc = "done" /\ tasks[f].result \in {"true", "false"}

\* the run has returned; one file failed on every attempt, another succeeded
ReturnedWithOneFailure ==
    /\ drv = "done"
    /\ \E f, g \in Admitted :
          /\ tasks[f].result = "false" /\ tasks[f].raised = retry_attempts
          /\ tasks[g].result = "true"

\* C4: a file whose processing raised k times before succeeding (k < N) was
\* invoked k+1 times, reported as success and counted as processed; a file
\* whose N attempts all raised was invoked N times, reported as failure and
\* counted once in failed_files
RetryCount ==
    /\ \A f \in Files :
          tasks[f].pc = "done" =>
             /\ tasks[f].calls = Min(tasks[f].raised + 1, retry_attempts)
             /\ (tasks[f].result = "true") <=> (tasks[f].raised < retry_attempts)
             /\ (tasks[f].result = "false") <=> (tasks[f].raised >= retry_attempts)
    /\ metrics.processed_files =
          Cardinality({f \in Files : tasks[f].pc = "done"
                                     /\ tasks[f].raised < retry_attempts})
    /\ metrics.failed_files =
          Cardinality({f \in Files : tasks[f].pc = "done"
                                     /\ tasks[f].raised >= retry_attempts})

\* a file that raised at least once and then succeeded, and a file that
\* exhausted its attempts
RetriedThenSucceeded ==
    /\ \E f \in Files :
          tasks[f].pc = "done" /\ tasks[f].raised >= 1 /\ tasks[f].result = "true"
    /\ \E g \in Files :
          tasks[g].pc = "done" /\ tasks[g].raised = retry_attempts

\* C5: no processing exception escapes _process_file_with_retry: a task that
\* ran to its end handed back True or False
RetryBoundaryNeverRaises ==
    \A f \in Files :
       /\ tasks[f].result # "raised"
       /\ tasks[f].pc = "done" => tasks[f].result \in {"true", "false"}

\* a file whose every attempt raised has ended, with more than one attempt
ExhaustedAfterRetries ==
    \E f \in Files :
       /\ tasks[f].pc = "done"
       /\ tasks[f].raised = retry_attempts
       /\ retry_attempts > 1

\* C6: once an attempt has failed with an error of a non-retryable category,
\* no further attempt is made for that file
NoAttemptAfterNonRetryable ==
    \A i \in Files :
       (downloads[i].pc = "download" /\ downloads[i].attempt > 0)
          => is_retryable(downloads[i].last_category)

\* C7: for a rate-limited or throttled error get_retry_delay returns the
\* retry_after hint whenever the error carries one, else min(base * 3^attempt, 300)
RateLimitDelay ==
    (d_delay # <<>> /\ d_error.category \in {"rate_limited", "throttled"})
       => RatEq(d_delay[1],
                IF d_error.retry_after # None
                THEN Rat(d_error.retry_after[1], 1)
                ELSE RatMin(RatMul(d_base, Rat(Pow(3, d_attempt), 1)), Rat(300, 1)))

\* C8: for a network, timeout or connection error (carrying no retry_after
\* hint) get_retry_delay returns min(base * 2^attempt, 60)
NetworkDelay ==
    (/\ d_delay # <<>>
     /\ d_error.category \in {"network_error", "timeout", "connection_error"}
     /\ d_error.retry_after = None)
       => RatEq(d_delay[1],
                RatMin(RatMul(d_base, Rat(Pow(2, d_attempt), 1)), Rat(60, 1)))

\* C9: in every state of a run
\* processed_files + failed_files + skipped_files <= total_files
MetricsBound ==
    metrics.processed_files + metrics.failed_files + metrics.skipped_files
       <= metrics.total_files

\* C10: when a run over n files that all yield content has returned, with s
\* files that succeeded in the end and n - s that raised on every attempt,
\* the metrics read total n, processed s, failed n - s, skipped 0
FinalMetrics ==
    (drv = "done" /\ \A f \in Admitted : tasks[f].content) =>
       LET n == admitted
           s == Cardinality({f \in Admitted : tasks[f].calls > tasks[f].raised})
       IN /\ metrics.total_files = n
          /\ metrics.processed_files = s
          /\ metrics.failed_files = n - s
          /\ metrics.skipped_files = 0

\* a returned run over MaxFiles files with content, some succeeded, some failed
ReturnedMixedRun ==
    /\ drv = "done"
    /\ admitted = MaxFiles
    /\ \A f \in Admitted : tasks[f].content
    /\ \E f \in Admitted : tasks[f].calls > tasks[f].raised
    /\ \E f \in Admitted : tasks[f].calls = tasks[f].raised

\* the run has loaded the state a completed earlier run persisted, and the
\* library has not changed since that run completed
RerunOverUnchangedSource ==
    /\ run >= 2
    /\ enable_incremental_sync
    /\ gen \in {"downloads", "yielded"}
    /\ sync_state.last_successful_sync # None
    /\ sync_state_file # NoSyncFile
    /\ \A i \in source : mtime[i] < sync_state_file[1].last_successful_sync[1]

\* C11: on a run over an unchanged source that follows a completed, persisted
\* run, every file in processed_files is neither downloaded nor yielded, and
\* total_files_processed stays at its persisted value
SecondRunSkipsProcessed ==
    RerunOverUnchangedSource =>
       /\ \A i \in sync_state.processed_files :
             downloads[i].calls = 0 /\ downloads[i].result # "file"
       /\ sync_state.total_files_processed
             = sync_state_file[1].total_files_processed

\* the second run has been through every file, the first run had processed
\* them all
SecondRunSkippedAll ==
    /\ RerunOverUnchangedSource
    /\ sync_state.processed_files = source
    /\ Cardinality(source) = MaxFiles
    /\ \A i \in source : downloads[i].consumed /\ downloads[i].calls = 0

\* C12: in self.sync_state and in the sync state file alike no identifier is
\* in both processed_files and failed_files
ProcessedFailedDisjoint ==
    /\ sync_state.processed_files \cap sync_state.failed_files = {}
    /\ sync_state_file # NoSyncFile =>
          sync_state_file[1].processed_files \cap sync_state_file[1].failed_files = {}

\* a later run has loaded a state with a processed and a failed identifier
LoadedProcessedAndFailed ==
    /\ run >= 2
    /\ gen = "downloads"
    /\ sync_state.processed_files # {}
    /\ sync_state.failed_files # {}
    /\ sync_state_file # NoSyncFile
    /\ sync_state_file[1].failed_files # {}

\* C13: on a later run a file is skipped (its download returns without an
\* attempt) only if its identifier is in processed_files
SkippedOnlyIfProcessed ==
    \A i \in Files :
       (run >= 2 /\ downloads[i].pc = "done" /\ downloads[i].calls = 0)
          => i \in sync_state.processed_files

\* C14: once list_files has completed with incremental sync enabled, the
\* last_sync_timestamp the next run reads from the file is the completion
\* time of that run
PersistedTimestampIsCompletionTime ==
    (gen = "done" /\ enable_incremental_sync
       /\ sync_state.last_successful_sync # None)
       => get_last_sync_timestamp(sync_state_file) = sync_state.last_successful_sync

\* C15: an identifier is in processed_files only if the caller indexed the
\* file it was handed
ProcessedOnlyIfIndexed ==
    \A i \in sync_state.processed_files : handed[i] = "true"

\* a step of reset_sync_state that changes self.sync_state
ResetStep ==
    /\ gen \in {"start", "done", "raised"}
    /\ gen' = gen
    /\ run' = run
    /\ sync_state' # sync_state

\* the run that follows a reset discovers every file of the library and
\* skips none
FullRescanAfterReset ==
    (sync_state_file = save_sync_state(NewSyncState)
        /\ gen \in {"downloads", "yielded"}) =>
       \A i \in source :
          /\ downloads[i].pc # "none"
          /\ downloads[i].pc = "done" => downloads[i].calls > 0

StatusCategory(sc, msg) ==
    IF sc = 401 THEN "authentication"
    ELSE IF sc = 403 THEN
        IF "rate limit" \in msg \/ "throttl" \in msg
        THEN "rate_limited" ELSE "authorization"
    ELSE IF sc = 404 THEN "resource_not_found"
    ELSE IF sc = 429 THEN "rate_limited"
    ELSE IF sc >= 500 THEN "service_unavailable"
    ELSE "bad_request"

\* C17: for an exception with a response of status code s classify_exception
\* yields the category of s (401, 403, 404, 429, 5xx, other 4xx) and a
\* numeric Retry-After header as retry_after
StatusCodeClassification ==
    (k_result # <<>> /\ k_exception.response /\ k_exception.status # None) =>
       LET sc == k_exception.status[1]
           r == k_result[1]
       IN /\ r.raised = "none"
          /\ sc >= 400 => r.category = StatusCategory(sc, k_exception.msg)
          /\ k_exception.header.kind = "int" =>
                r.retry_after = <<k_exception.header.val>>

\* the exception without the cues the status code branch does not read
WithoutCues(e) ==
    [e EXCEPT !.type = {}, !.msg = @ \cap {"rate limit", "throttl"}]

\* a cue of the set is in the type name or in the message
HasCue(e, cues) == \E k \in cues : k \in e.type \/ k \in e.msg

\* the categories the claimed order of cues allows an exception without a
\* response
CueOrderCategories(e) ==
    IF HasCue(e, {"timeout", "connection", "network"})
    THEN {"timeout", "connection_error", "network_error"}
    ELSE IF HasCue(e, {"authentication", "token"})
    THEN {"authentication", "token_expired"}
    ELSE IF HasCue(e, {"rate limit", "throttl", "too many requests"})
    THEN {"rate_limited"}
    ELSE IF HasCue(e, {"file too large", "size limit"}) THEN {"file_too_large"}
    ELSE IF "unsupported" \in e.msg /\ "file" \in e.msg
    THEN {"unsupported_file_type"}
    ELSE IF HasCue(e, {"invalid site", "site not found"}) THEN {"invalid_site_url"}
    ELSE IF "document library" \in e.msg /\ "not found" \in e.msg
    THEN {"document_library_not_found"}
    ELSE {"unknown"}

\* C18: with a response the category does not depend on type-name or message
\* cues (the 403 check apart); without one the timeout, connection and
\* network cues decide first, then the authentication, rate-limit, file-size,
\* unsupported-type, site and library cues, and no cue at all gives unknown
ClassificationPrecedence ==
    (k_result # <<>> /\ k_result[1].raised = "none") =>
       IF k_exception.response
       THEN k_result[1] = classify_exception(WithoutCues(k_exception))
       ELSE k_result[1].category \in CueOrderCategories(k_exception)

\* C19: the breaker is closed exactly while failure_count is below
\* failure_threshold; a call that returns leaves failure_count 0 and the
\* breaker closed; the failure that brings failure_count to failure_threshold
\* leaves it open
BreakerOpensAtThreshold ==
    /\ [](breaker_state = "closed" <=> failure_count < failure_threshold)
    /\ [][\A c \in Callers :
            (callers[c].pc = "running" /\ callers'[c].outcome = "returned"
                /\ callers'[c].pc = "idle")
               => (failure_count' = 0 /\ breaker_state' = "closed")]_vars
    /\ [][(failure_count < failure_threshold
             /\ failure_count' = failure_threshold)
            => breaker_state' = "open"]_vars

\* the breaker has opened on the second of two failures in a row, after a
\* call that returned
OpenedAfterThresholdFailures ==
    /\ breaker_state = "open"
    /\ failure_threshold = 2
    /\ failure_count = failure_threshold
    /\ \E c \in Callers : callers[c].outcome = "returned"

\* the breaker opened, has not been probed since, and recovery_timeout has
\* not elapsed since the most recent failure
InCooldown ==
    /\ tripped
    /\ last_failure_time # None
    /\ now - last_failure_time[1] < recovery_timeout

\* C20: during the cooldown of a breaker that has opened no call of the
\* wrapped function begins, and a call made then ends with SharePointError
\* and leaves failure_count unchanged
NoCallDuringCooldown ==
    [][InCooldown =>
         \A c \in Callers :
            /\ callers[c].pc = "idle" => callers'[c].pc = "idle"
            /\ (callers[c].pc = "idle" /\ callers'[c] # callers[c]) =>
                  /\ callers'[c].outcome = "SharePointError"
                  /\ failure_count' = failure_count]_vars

\* C21: after mark_completed current_stage is completed and overall_progress
\* is exactly 100, whatever updates came before
CompletedIsHundred ==
    tracker_call = "mark_completed" =>
       /\ current_stage = "completed"
       /\ RatEq(overall_progress, Rat(100, 1))

\* mark_completed was called on a tracker whose downloads stood at one half
CompletedFromHalfway ==
    /\ tracker_call = "mark_completed"
    /\ stage_progress["downloading_files"] = <<ProgressUpdate(1, 2)>>
    /\ history = 2

\* C22: over any sequence of update_stage, mark_completed and mark_failed
\* calls overall_progress never decreases and stays within [0, 100]
ProgressMonotone ==
    /\ [][RatLe(overall_progress, overall_progress')]_vars
    /\ [](RatLe(Rat(0, 1), overall_progress) /\ RatLe(overall_progress, Rat(100, 1)))

\* _run_concurrent_add has exited: it returned, or the enumeration error
\* propagated out of it
Exited == drv \in {"done", "raised"}

\* C23: whenever _run_concurrent_add has exited, normally or on an
\* enumeration error, every task it created has run to its end or has been
\* cancelled and the cancellation delivered
AllTasksEndedAtExit ==
    Exited =>
       \A f \in Files :
          Created(tasks[f]) => (Finished(tasks[f]) /\ ~tasks[f].cancel)

\* the enumeration raised with one task done and another still running, which
\* was then cancelled
RaisedWithCancelledTask ==
    /\ drv = "raised"
    /\ \E f, g \in Admitted :
          tasks[f].pc = "cancelled" /\ tasks[g].pc = "done"

\* C24: once the run has ended, cut short by an enumeration failure or not,
\* the handle of every admitted file has been closed
HandlesClosedAtExit ==
    Exited => \A f \in Admitted : tasks[f].closed

\* C26: active_tasks never holds more than 2 * max_concurrent_files tasks,
\* and with that many the driver is not at the enumeration: it admits no
\* file before a task has finished
ActiveTasksBound ==
    /\ Cardinality(active_tasks) <= 2 * max_concurrent_files
    /\ drv = "enum" => Cardinality(active_tasks) < 2 * max_concurrent_files

\* the driver waits with 2 * max_concurrent_files tasks, none of them finished
AdmissionWaiting ==
    /\ drv = "wait"
    /\ Cardinality(active_tasks) = 2 * max_concurrent_files
    /\ \A f \in active_tasks : ~Finished(tasks[f])

\* C28: no attempt is started on a handle already closed: across the retries
\* of a file the handle stays open
NoAttemptOnClosedHandle ==
    \A f \in Files : ~tasks[f].usedClosed

\* C30: with max_concurrent_files >= 1 and max_concurrent_downloads >= 1, a
\* finite source and operations that all end, _run_concurrent_add eventually
\* exits, whichever files fail
RunTerminates == <>Exited

\* a run with one processing slot and one download slot has returned over
\* MaxFiles files, one failed on every attempt and one indexed
ReturnedThroughSingleSlots ==
    /\ drv = "done"
    /\ admitted = MaxFiles
    /\ max_concurrent_files = 1 /\ max_concurrent_downloads = 1
    /\ \E f, g \in Admitted :
          /\ tasks[f].result = "false"
          /\ tasks[g].result = "true" /\ tasks[g].content

\* C25: a failure raised while enumerating the source propagates out of
\* list_files, and by then the sync state file holds self.sync_state
EnumerationFailurePersistsState ==
    gen = "raised" => sync_state_file = save_sync_state(sync_state)

\* the clients the operations hold
HeldClients == {ops[i].client : i \in {j \in Files : ops[j].client # 0}}

\* the clients in the free-list
PooledClients == {pooled_clients[k] : k \in 1..Len(pooled_clients)}

\* no client is held by two operations, or held while it is in the
\* free-list, or twice in the free-list; the free-list is within its size
ClientsExclusive ==
    /\ \A i, j \in Files :
          (i # j /\ ops[i].client # 0) => ops[i].client # ops[j].client
    /\ HeldClients \cap PooledClients = {}
    /\ Cardinality(PooledClients) = Len(pooled_clients)
    /\ Len(pooled_clients) <= connection_pool_size

\* C27: under every interleaving a pooled client is held by at most one
\* operation at a time and the free-list never holds more than
\* connection_pool_size clients; an operation that finds the pool empty
\* constructs a client instead of waiting for one to be returned
PoolClientsExclusive ==
    /\ []ClientsExclusive
    /\ [][\A i \in Files :
            (ops[i].pc = "idle" /\ ops'[i].pc # "idle" /\ pooled_clients = <<>>)
               => ops'[i].pc = "creating"]_vars

\* more clients are live than the pool has room for: one operation holds a
\* client it popped from the pool, another one it had to construct
MoreClientsThanPoolSize ==
    /\ \E i, j \in Files :
          /\ ops[i].pc = "using" /\ ops[i].pooled
          /\ ops[j].pc = "using" /\ ~ops[j].pooled
    /\ Cardinality(HeldClients \cup PooledClients) > connection_pool_size

\* C29: classify_exception returns a classified error for every exception,
\* whatever its response, status code and headers, and never raises
ClassifyIsTotal ==
    k_result # <<>> => k_result[1].raised = "none"

====
